---- MODULE Spec2Model ----
(***************************************************************************)
(* Model of nvme_lint/extractor.py: the repair of a table extracted from a *)
(* PDF page (clean_table and its helpers).                                 *)
(*                                                                         *)
(* A table (a pandas DataFrame) is a sequence of rows, each row a sequence *)
(* of cells; a cell is a string, NaN being the marker pandas uses for a    *)
(* missing value.  TLA+ sequences start at 1 while the source counts rows  *)
(* and columns from 0: every row or column number below is the source's    *)
(* (0-based) and iat(table, r, c) does the shift.                          *)
(*                                                                         *)
(* A Python set of row numbers is modelled with the layout of CPython's    *)
(* hash table (its mask and fill), because fix_hole iterates over such a   *)
(* set and the order of that iteration is decided by the layout.           *)
(***************************************************************************)
EXTENDS Integers, Sequences, FiniteSets, TLC

VARIABLES
    pc,         \* position in the call being modelled
    input,      \* the raw grid handed to clean_table
    table,      \* the DataFrame being repaired
    columns,    \* its column labels (table.columns)
    subtables,  \* the list of sets returned by partition_into_subtables
    run,        \* 1: clean_table(g), 2: clean_table(clean_table(g))
    result1,    \* the grid returned by the first run
    visited,    \* history: the grids the earlier turns of the while loop began with
    arg,        \* arguments of a helper called on its own
    ret         \* what that helper returned

vars == <<pc, input, table, columns, subtables, run, result1, visited, arg, ret>>

(***************************************************************************)
(* Bounds of the model.                                                    *)
(***************************************************************************)
MaxRows == 3        \* rows of a small grid, and of the body of a tall grid
MaxCols == 3        \* columns of a small grid
MaxCells == 9       \* cells of a small grid, and of the body of a tall grid
HeaderRows == 6     \* rows of the preamble of a tall grid
SegRows == 5        \* rows of a grid handed to partition_into_subtables alone
SegCols == 3        \* columns of such a grid

(***************************************************************************)
(* Values.                                                                 *)
(***************************************************************************)
NaN == "<NaN>"      \* np.nan
None == -1          \* Python's None, where an int is returned otherwise
ValueError == -2    \* min() of an empty set raises ValueError

Texts == <<"a", "b", "c", "d", "e", "f", "g">>

isnull(v) == v = NaN

\* The regular expression ^\s*$ of the first replace of clean_table.
is_blank(v) == v \in {"", " "}

Max(S) == CHOOSE x \in S : \A y \in S : y <= x
Min(S) == CHOOSE x \in S : \A y \in S : x <= y

\* The elements of a finite set of integers, ascending.
SortedSeq(S) ==
    [i \in 1..Cardinality(S) |-> CHOOSE x \in S : Cardinality({y \in S : y < x}) = i - 1]

(***************************************************************************)
(* DataFrame access.                                                       *)
(***************************************************************************)
n_rows(t) == Len(t)
n_cols(t) == IF t = <<>> THEN 0 ELSE Len(t[1])
iat(t, r, c) == t[r + 1][c + 1]

range_columns(n) == [i \in 1..n |-> i - 1]

(***************************************************************************)
(* clean_table, lines 45-52: normalisation.                                *)
(***************************************************************************)
replace_blank(t) ==
    [r \in 1..Len(t) |-> [c \in 1..Len(t[r]) |-> IF is_blank(t[r][c]) THEN NaN ELSE t[r][c]]]

row_all_nan(row) == \A c \in 1..Len(row) : isnull(row[c])

\* dropna(how="all", axis=0) followed by reset_index(drop=True)
dropna_rows(t) == SelectSeq(t, LAMBDA row : ~row_all_nan(row))

\* the positions (0-based) of the columns dropna(how="all", axis=1) keeps
kept_columns(t) ==
    {c \in 0..(n_cols(t) - 1) : \E r \in 0..(n_rows(t) - 1) : ~isnull(iat(t, r, c))}

dropna_cols(t) ==
    LET keep == SortedSeq(kept_columns(t))
    IN  [r \in 1..Len(t) |-> [k \in 1..Len(keep) |-> t[r][keep[k] + 1]]]

normalize(t) == dropna_cols(dropna_rows(replace_blank(t)))

normalize_columns(t, cols) ==
    LET d == dropna_rows(replace_blank(t))
        keep == SortedSeq(kept_columns(d))
    IN  [k \in 1..Len(keep) |-> cols[keep[k] + 1]]

(***************************************************************************)
(* Python sets of row numbers: [elems, fill, mask] is CPython's set object *)
(* (its keys, so->fill counting keys and dummies, so->mask = slots - 1).   *)
(* A small int hashes to itself and lands in slot key % (mask + 1); the    *)
(* sets built here hold fewer consecutive-range keys than slots, so no two *)
(* keys share a slot and iteration visits the keys by ascending slot.      *)
(***************************************************************************)
RECURSIVE set_table_size(_, _)
set_table_size(newsize, minused) ==
    IF newsize <= minused THEN set_table_size(2 * newsize, minused) ELSE newsize

set_resize(s) ==
    [elems |-> s.elems,
     fill  |-> Cardinality(s.elems),
     mask  |-> set_table_size(8, 4 * Cardinality(s.elems)) - 1]

set_empty == [elems |-> {}, fill |-> 0, mask |-> 7]

set_add(s, key) ==
    IF key \in s.elems THEN s
    ELSE LET s1 == [elems |-> s.elems \cup {key}, fill |-> s.fill + 1, mask |-> s.mask]
         IN  IF s1.fill * 5 < s1.mask * 3 THEN s1 ELSE set_resize(s1)

\* set(range(first, last + 1))
RECURSIVE set_of_range(_, _)
set_of_range(first, last) ==
    IF last < first THEN set_empty ELSE set_add(set_of_range(first, last - 1), last)

\* s -= other
set_isub(s, other) ==
    LET s1 == [elems |-> s.elems \ other.elems, fill |-> s.fill, mask |-> s.mask]
    IN  IF s1.fill - Cardinality(s1.elems) <= s1.mask \div 4 THEN s1 ELSE set_resize(s1)

set_len(s) == Cardinality(s.elems)

\* the keys in the order "for x in s" visits them
set_iter(s) ==
    LET n == s.mask + 1
    IN  [i \in 1..Cardinality(s.elems) |->
            CHOOSE x \in s.elems : Cardinality({y \in s.elems : y % n < x % n}) = i - 1]

(***************************************************************************)
(* Segmentation, lines 127-189.                                            *)
(***************************************************************************)
\* lines 166-170 and 134-139: the first / last non-null column of a row, 0 if none
first_content_col(row_index, t) ==
    LET S == {c \in 0..(n_cols(t) - 1) : ~isnull(iat(t, row_index, c))}
    IN  IF S = {} THEN 0 ELSE Min(S)

last_content_col(row_index, t) ==
    LET S == {c \in 0..(n_cols(t) - 1) : ~isnull(iat(t, row_index, c))}
    IN  IF S = {} THEN 0 ELSE Max(S)

\* a find_outer_end that returns the row with content to the left, not the one before it
find_outer_end_inclusive(first_row, t) ==
    LET subtable_first_col == first_content_col(first_row, t)
        S == {i \in first_row..(n_rows(t) - 1) :
                \E x \in 0..(subtable_first_col - 1) : ~isnull(iat(t, i, x))}
    IN  IF S = {} THEN n_rows(t) - 1 ELSE Min(S)

find_outer_end(first_row, t) ==
    LET subtable_first_col == first_content_col(first_row, t)
        S == {i \in first_row..(n_rows(t) - 1) :
                \E x \in 0..(subtable_first_col - 1) : ~isnull(iat(t, i, x))}
    IN  IF S = {} THEN n_rows(t) - 1 ELSE Min(S) - 1

find_next_subtable(first_row, last_col, t) ==
    LET S == {i \in (first_row + 1)..(n_rows(t) - 1) :
                \E x \in (last_col + 1)..(n_cols(t) - 1) : ~isnull(iat(t, i, x))}
    IN  IF S = {} THEN None ELSE Min(S)

\* lines 149-152: the for loop over the subtables a recursive call returned
RECURSIVE take_subtables(_, _)
take_subtables(st, next_subtables) ==
    IF next_subtables = <<>> THEN st
    ELSE LET subtable == Head(next_subtables)
         IN  take_subtables(
                [current_subtable  |-> set_isub(st.current_subtable, subtable),
                 subtables         |-> Append(st.subtables, subtable),
                 current_first_row |-> st.current_first_row + set_len(subtable)],
                Tail(next_subtables))

RECURSIVE partition_into_subtables(_, _)
RECURSIVE partition_while(_, _, _)

\* lines 145-152: the while loop; a row number is true unless it is 0
partition_while(st, current_last_col, t) ==
    LET next_first_row == find_next_subtable(st.current_first_row, current_last_col, t)
    IN  IF next_first_row = None \/ next_first_row = 0 THEN st
        ELSE partition_while(
                take_subtables([st EXCEPT !.current_first_row = next_first_row],
                               partition_into_subtables(next_first_row, t)),
                current_last_col, t)

partition_into_subtables(current_first_row, t) ==
    LET current_last_col == last_content_col(current_first_row, t)
        current_last_row == find_outer_end(current_first_row, t)
        st == partition_while(
                [current_subtable  |-> set_of_range(current_first_row, current_last_row),
                 subtables         |-> <<>>,
                 current_first_row |-> current_first_row],
                current_last_col, t)
    IN  IF st.current_subtable.elems # {}
        THEN Append(st.subtables, st.current_subtable)
        ELSE st.subtables

\* the row sets of a list of subtables, without their layout
elems_of(subs) == [i \in 1..Len(subs) |-> subs[i].elems]

(***************************************************************************)
(* Hole detection, lines 69-92.                                            *)
(***************************************************************************)
non_nan_indices(row) == {i \in 0..(Len(row) - 1) : ~isnull(row[i + 1])}

\* the hole column, None, or ValueError when the row holds no value
find_hole_in_row(row) ==
    LET nn == non_nan_indices(row)
    IN  IF nn = {} THEN ValueError
        ELSE LET hole == (Min(nn)..(Max(nn) - 1)) \ nn
             IN  IF hole # {} THEN Max(hole) ELSE None

hole_of(subtable, t) == find_hole_in_row(t[Min(subtable.elems) + 1])

\* "if hole := ...": None and 0 are false
is_hole(h) == h # None /\ h # 0

\* [raised, holes]: raised when find_hole_in_row raised for some subtable,
\* holes the dictionary {column: subtable}, a later subtable replacing an
\* earlier one with the same column
find_holes(subs, t) ==
    LET found == {i \in 1..Len(subs) : is_hole(hole_of(subs[i], t))}
        keys  == {hole_of(subs[i], t) : i \in found}
    IN  IF \E i \in 1..Len(subs) : hole_of(subs[i], t) = ValueError
        THEN [raised |-> TRUE, holes |-> <<>>]
        ELSE [raised |-> FALSE,
              holes  |-> [h \in keys |-> subs[Max({i \in found : hole_of(subs[i], t) = h})]]]

(***************************************************************************)
(* Hole resolution, lines 95-124.                                          *)
(***************************************************************************)
no_conflict(left_col, t) ==
    \A r \in 0..(n_rows(t) - 1) : isnull(iat(t, r, left_col)) \/ isnull(iat(t, r, left_col + 1))

\* a combine_first that keeps the caller's value even when it is null
combine_first_keep_left(a, b) == a

\* Series.combine_first: the caller's value unless it is null
combine_first(a, b) == IF isnull(a) THEN b ELSE a

\* a concat with join="inner" after dropping the nulls of the combined column:
\* the rows where both columns are null are lost
merge_columns_inner(left_col, t) ==
    LET kept == SelectSeq(t, LAMBDA row : ~isnull(combine_first(row[left_col + 1], row[left_col + 2])))
    IN  [r \in 1..Len(kept) |->
            [k \in 1..(Len(kept[r]) - 1) |->
                IF k - 1 < left_col THEN kept[r][k]
                ELSE IF k - 1 = left_col THEN combine_first(kept[r][k], kept[r][k + 1])
                ELSE kept[r][k + 1]]]

\* pd.concat of the columns before left_col, the combined column, the columns after it
merge_columns(left_col, t) ==
    [r \in 1..Len(t) |->
        [k \in 1..(Len(t[r]) - 1) |->
            IF k - 1 < left_col THEN t[r][k]
            ELSE IF k - 1 = left_col THEN combine_first(t[r][k], t[r][k + 1])
            ELSE t[r][k + 1]]]

\* the labels after that concat: the combined Series keeps the label of left_col
merge_labels(left_col, cols) ==
    [k \in 1..(Len(cols) - 1) |-> IF k - 1 <= left_col THEN cols[k] ELSE cols[k + 1]]

\* lines 118-122: left and right list the flagged rows by ascending row number,
\* the loop that writes them back visits the set in its own order
swap_columns(col, rows_with_hole, t) ==
    LET flagged == SortedSeq(rows_with_hole.elems \cap (0..(n_rows(t) - 1)))
        left    == [i \in 1..Len(flagged) |-> iat(t, flagged[i], col)]
        right   == [i \in 1..Len(flagged) |-> iat(t, flagged[i], col + 1)]
        order   == set_iter(rows_with_hole)
        at(row) == CHOOSE i \in 1..Len(order) : order[i] = row
    IN  [r \in 1..Len(t) |->
            IF (r - 1) \in rows_with_hole.elems
            THEN [t[r] EXCEPT ![col + 1] = right[at(r - 1)], ![col + 2] = left[at(r - 1)]]
            ELSE t[r]]

\* which branch of fix_hole is taken
fix_case(col, t) ==
    IF no_conflict(col, t) THEN "right"
    ELSE IF no_conflict(col - 1, t) THEN "left"
    ELSE "swap"

fix_hole(col, rows_with_hole, t) ==
    IF fix_case(col, t) = "right" THEN merge_columns(col, t)
    ELSE IF fix_case(col, t) = "left" THEN merge_columns(col - 1, t)
    ELSE swap_columns(col, rows_with_hole, t)

fix_hole_columns(col, t, cols) ==
    IF fix_case(col, t) = "right" THEN merge_labels(col, cols)
    ELSE IF fix_case(col, t) = "left" THEN merge_labels(col - 1, cols)
    ELSE cols

(***************************************************************************)
(* clean_table, lines 61-66.                                               *)
(***************************************************************************)
replace_nan(t) ==
    [r \in 1..Len(t) |-> [c \in 1..Len(t[r]) |-> IF isnull(t[r][c]) THEN "" ELSE t[r][c]]]

(***************************************************************************)
(* Input grids.  A grid is drawn as a mask (1: the cell holds text); the   *)
(* text of a cell and the form of an empty cell (empty string, blank, NaN) *)
(* follow from its position, so that neighbouring cells differ.            *)
(***************************************************************************)
text_at(r, c) == Texts[((4 * r + c) % Len(Texts)) + 1]

empty_at(r, c) == IF (r + c) % 3 = 0 THEN "" ELSE IF (r + c) % 3 = 1 THEN " " ELSE NaN

grid_of(m) ==
    [r \in 1..Len(m) |->
        [c \in 1..Len(m[r]) |-> IF m[r][c] = 1 THEN text_at(r - 1, c - 1) ELSE empty_at(r - 1, c - 1)]]

\* the same grid as pandas holds it after the first replace: NaN for every empty cell
nan_grid_of(m) == replace_blank(grid_of(m))

Masks(R, C) == [1..R -> [1..C -> {0, 1}]]

Shapes == {rc \in (1..MaxRows) \X (1..MaxCols) : rc[1] * rc[2] <= MaxCells}

SmallMasks == UNION {Masks(rc[1], rc[2]) : rc \in Shapes}

\* a preamble of HeaderRows rows (a title row, a row indented by one column,
\* then rows like the title), over a body of at most MaxRows rows
header_row(r, C) ==
    IF r = 2 THEN [c \in 1..C |-> IF c = 1 THEN 0 ELSE 1]
    ELSE [c \in 1..C |-> IF c = 1 THEN 1 ELSE 0]

TallMasks ==
    {[r \in 1..HeaderRows |-> header_row(r, MaxCols)] \o body :
        body \in UNION {Masks(rc[1], MaxCols) : rc \in {x \in Shapes : x[2] = MaxCols}}}

\* two nine-row tables with four columns
RegressionMasks ==
    { << <<0,0,1,0>>, <<0,0,0,1>>, <<0,0,0,1>>, <<1,1,0,1>>, <<0,1,0,0>>,
         <<1,0,0,1>>, <<0,0,0,1>>, <<1,0,0,0>>, <<0,1,0,0>> >>,
      << <<0,1,0,0>>, <<0,0,1,0>>, <<1,0,0,0>>, <<1,1,1,0>>, <<0,1,0,0>>,
         <<1,0,1,1>>, <<0,0,0,1>>, <<0,0,1,0>>, <<0,0,0,1>> >> }

InputGrids == {grid_of(m) : m \in SmallMasks \cup TallMasks \cup RegressionMasks} \cup {<<>>}

(***************************************************************************)
(* clean_table as a state machine.                                         *)
(***************************************************************************)
Init ==
    /\ pc = "start"
    /\ input \in InputGrids
    /\ table = input
    /\ columns = range_columns(n_cols(input))
    /\ subtables = <<>>
    /\ run = 1
    /\ result1 = <<>>
    /\ visited = {}
    /\ arg = 0
    /\ ret = 0

\* lines 45-52
Normalize ==
    /\ pc = "start"
    /\ table' = normalize(table)
    /\ columns' = normalize_columns(table, columns)
    /\ pc' = "normalized"
    /\ UNCHANGED <<input, subtables, run, result1, visited, arg, ret>>

\* line 54
Partition ==
    /\ pc = "normalized"
    /\ subtables' = partition_into_subtables(0, table)
    /\ pc' = "loop"
    /\ UNCHANGED <<input, table, columns, run, result1, visited, arg, ret>>

\* lines 56-59: one turn of the while loop
FixHole ==
    /\ pc = "loop"
    /\ LET found == find_holes(subtables, table)
       IN  /\ ~found.raised
           /\ DOMAIN found.holes # {}
           /\ LET index == Max(DOMAIN found.holes)
              IN  /\ table' = fix_hole(index, found.holes[index], table)
                  /\ columns' = fix_hole_columns(index, table, columns)
    /\ visited' = visited \cup {table}
    /\ UNCHANGED <<pc, input, subtables, run, result1, arg, ret>>

\* line 56, find_holes raising: the exception leaves clean_table
HoleError ==
    /\ pc = "loop"
    /\ find_holes(subtables, table).raised
    /\ pc' = "raised"
    /\ UNCHANGED <<input, table, columns, subtables, run, result1, visited, arg, ret>>

\* lines 56 (no hole left) and 61-66
Finish ==
    /\ pc = "loop"
    /\ LET found == find_holes(subtables, table)
       IN  ~found.raised /\ DOMAIN found.holes = {}
    /\ table' = replace_nan(table)
    /\ columns' = range_columns(n_cols(table))
    /\ pc' = "done"
    /\ UNCHANGED <<input, subtables, run, result1, visited, arg, ret>>

\* clean_table called on the grid it returned
CleanAgain ==
    /\ pc = "done"
    /\ run = 1
    /\ run' = 2
    /\ result1' = table
    /\ input' = table
    /\ subtables' = <<>>
    /\ visited' = {}
    /\ pc' = "start"
    /\ UNCHANGED <<table, columns, arg, ret>>

Next == Normalize \/ Partition \/ FixHole \/ HoleError \/ Finish \/ CleanAgain

Spec == Init /\ [][Next]_vars

(***************************************************************************)
(* Properties of clean_table.                                              *)
(***************************************************************************)
is_empty(v) == isnull(v) \/ is_blank(v)

\* how many cells of t hold v
count(t, v) ==
    Cardinality({rc \in (1..Len(t)) \X (1..n_cols(t)) : t[rc[1]][rc[2]] = v})

\* the grid as clean_table reads it: every empty cell NaN
as_read(t) == replace_blank(t)

row_sets(subs) == {subs[i].elems : i \in 1..Len(subs)}

\* C1 (Conservation): in every state of a run of clean_table (so after the
\* normalisation, after every single fix_hole step and in the returned grid)
\* every text occurs in the working grid as often as in the input grid: no
\* value is dropped, duplicated or fabricated.
C1_Conservation ==
    \A i \in 1..Len(Texts) : count(table, Texts[i]) = count(input, Texts[i])

\* a first run that returned a grid with fewer columns than the normalised
\* input (a merge took place) and with values in more than one row
C1_Witness ==
    /\ pc = "done"
    /\ run = 1
    /\ n_cols(table) < n_cols(normalize(input))
    /\ n_rows(table) >= 2

\* C2 (Termination): every run of clean_table reaches its return: no step
\* raises, and the while loop ends.  A run is deterministic (every state has
\* at most one successor), so the loop ends exactly when no turn begins with a
\* grid an earlier turn began with.
C2_Termination ==
    /\ pc # "raised"
    /\ pc = "loop" => table \notin visited

\* C3 (Hole-free termination): when clean_table has returned, segmenting the
\* returned grid afresh and detecting holes against that segmentation finds
\* no hole (and does not raise).
C3_HoleFreeAfresh ==
    pc = "done" =>
        LET t == as_read(table)
            found == find_holes(partition_into_subtables(0, t), t)
        IN  ~found.raised /\ DOMAIN found.holes = {}

\* C4 (Idempotence): clean_table applied to the grid clean_table returned
\* returns that grid again, cell for cell and in shape.
C4_Idempotent == (pc = "done" /\ run = 2) => table = result1

\* C6 (No blank lines): after the normalisation, in every state of the loop
\* and in the returned grid, no row and no column holds only empty cells.
C6_NoBlankLines ==
    pc \in {"normalized", "loop", "done"} =>
        /\ \A r \in 1..n_rows(table) : \E c \in 1..n_cols(table) : ~is_empty(table[r][c])
        /\ \A c \in 1..n_cols(table) : \E r \in 1..n_rows(table) : ~is_empty(table[r][c])

\* C10 (Segmentation stability), as claimed: in every state of the loop,
\* segmenting the current grid afresh gives the row sets of the segmentation
\* computed before the first fix.
C10_SegmentationStable ==
    pc = "loop" => row_sets(partition_into_subtables(0, table)) = row_sets(subtables)

\* C10, amended: in every state of the loop the stored segmentation is the one
\* computed on the normalised grid, the grid still has the rows it had then
\* and every stored row number is a row of the grid; a fresh segmentation of
\* the current grid need not agree with the stored one.
C10_RowSetsStayValid ==
    pc = "loop" =>
        /\ subtables = partition_into_subtables(0, normalize(input))
        /\ n_rows(table) = n_rows(normalize(input))
        /\ \A i \in 1..Len(subtables) :
              subtables[i].elems # {} /\ subtables[i].elems \subseteq 0..(n_rows(table) - 1)

\* a state of the loop after a fix in which a fresh segmentation differs from
\* the stored one
C10_Witness ==
    /\ pc = "loop"
    /\ table # normalize(input)
    /\ row_sets(partition_into_subtables(0, table)) # row_sets(subtables)

(***************************************************************************)
(* The helpers called on their own.                                        *)
(***************************************************************************)
idle == /\ input = <<>> /\ columns = <<>> /\ subtables = <<>> /\ run = 1
        /\ result1 = <<>> /\ visited = {} /\ ret = 0

all_ranges(n) == {set_of_range(a, b) : a \in 0..(n - 1), b \in 0..(n - 1)} \ {set_empty}

\* partition_into_subtables(arg, table) on a normalised grid
SegmentGrids ==
    {g \in {nan_grid_of(m) : m \in UNION {Masks(R, C) : R \in 1..SegRows, C \in 1..SegCols}} :
        g = normalize(g)}

InitSegment ==
    /\ pc = "segment"
    /\ table \in SegmentGrids
    /\ arg \in 0..(n_rows(table) - 1)
    /\ idle

SegmentCall ==
    /\ pc = "segment"
    /\ ret' = partition_into_subtables(arg, table)
    /\ pc' = "segmented"
    /\ UNCHANGED <<input, table, columns, subtables, run, result1, visited, arg>>

SpecSegment == InitSegment /\ [][SegmentCall]_vars

\* the nested listing: four rows, four or five columns; row 0 starts at column
\* 0 and holds nothing beyond column 2, rows 1 and 2 hold column 3 only, row 3
\* holds column 0
NestedMasks ==
    {m \in Masks(4, 4) \cup Masks(4, 5) :
        /\ m[1][1] = 1 /\ \A c \in 4..Len(m[1]) : m[1][c] = 0
        /\ \A r \in {2, 3} : \A c \in 1..Len(m[r]) : m[r][c] = (IF c = 4 THEN 1 ELSE 0)
        /\ m[4][1] = 1}

InitNested ==
    /\ pc = "segment"
    /\ table \in {nan_grid_of(m) : m \in NestedMasks}
    /\ arg = 0
    /\ idle

SpecNested == InitNested /\ [][SegmentCall]_vars

\* find_holes(arg, table) on any grid, blank rows included
InitHoles ==
    /\ pc = "holes"
    /\ table \in {nan_grid_of(m) : m \in SmallMasks}
    /\ arg \in {<<a>> : a \in all_ranges(n_rows(table))}
               \cup {<<a, b>> : a \in all_ranges(n_rows(table)), b \in all_ranges(n_rows(table))}
    /\ idle

HolesCall ==
    /\ pc = "holes"
    /\ ret' = find_holes(arg, table)
    /\ pc' = "holes_found"
    /\ UNCHANGED <<input, table, columns, subtables, run, result1, visited, arg>>

SpecHoles == InitHoles /\ [][HolesCall]_vars

\* fix_hole(arg.col, arg.rows_with_hole, table), 1 <= col <= columns - 2
InitFix ==
    /\ pc = "fix"
    /\ table \in {nan_grid_of(m) : m \in {x \in SmallMasks : Len(x[1]) >= 3} \cup TallMasks}
    /\ arg \in [col : 1..(n_cols(table) - 2), rows_with_hole : all_ranges(n_rows(table))]
    /\ idle

FixCall ==
    /\ pc = "fix"
    /\ ret' = fix_hole(arg.col, arg.rows_with_hole, table)
    /\ pc' = "fixed"
    /\ UNCHANGED <<input, table, columns, subtables, run, result1, visited, arg>>

SpecFix == InitFix /\ [][FixCall]_vars

(***************************************************************************)
(* Properties of the helpers.                                              *)
(***************************************************************************)
\* C5 (Partition coverage): the row sets partition_into_subtables(first, grid)
\* returns for a normalised grid are pairwise disjoint (no row in two entries
\* of the list, no set twice) and their union is the range of rows from first
\* to the outer end find_outer_end finds.
C5_PartitionCoverage ==
    pc = "segmented" =>
        /\ \A i, j \in 1..Len(ret) : i # j => ret[i].elems \cap ret[j].elems = {}
        /\ UNION {ret[i].elems : i \in 1..Len(ret)} = arg..find_outer_end(arg, table)

\* C8 (Nested listing), as claimed: the nested listing segments into exactly
\* three subtables with the row sets {0}, {1,2} and {3}.
C8_ThreeSubtables ==
    pc = "segmented" => Len(ret) = 3 /\ row_sets(ret) = {{0}, {1, 2}, {3}}

\* C8, amended: the nested listing segments into two subtables, {1,2} and then
\* {0,3} (rows 0 and 3 stay together in the enclosing block); only when row 3
\* also holds content right of column 3 are there three: {3}, {1,2}, {0}.
C8_NestedListing ==
    pc = "segmented" =>
        elems_of(ret) =
            IF \E c \in 4..(n_cols(table) - 1) : ~isnull(iat(table, 3, c))
            THEN <<{3}, {1, 2}, {0}>>
            ELSE <<{1, 2}, {0, 3}>>

\* the four-column listing segmented into {1,2} and {0,3}
C8_Witness ==
    /\ pc = "segmented"
    /\ n_cols(table) = 4
    /\ elems_of(ret) = <<{1, 2}, {0, 3}>>

\* the subtables whose first row holds a value
well_formed(subs, t) == SelectSeq(subs, LAMBDA sub : non_nan_indices(t[Min(sub.elems) + 1]) # {})

\* C9 (Malformed subtable): given a subtable whose first row is entirely
\* empty, find_holes does not raise and reports the holes it reports for the
\* list without that subtable.
C9_MalformedSubtable ==
    pc = "holes_found" =>
        /\ ~ret.raised
        /\ ret.holes = find_holes(well_formed(arg, table), table).holes

\* the three cases fix_hole is described by
collapse(left_col, t) ==
    [r \in 1..Len(t) |->
        SubSeq(t[r], 1, left_col)
        \o << IF isnull(t[r][left_col + 1]) THEN t[r][left_col + 2] ELSE t[r][left_col + 1] >>
        \o SubSeq(t[r], left_col + 3, Len(t[r]))]

both(left_col, t) == \E r \in 1..Len(t) : ~isnull(t[r][left_col + 1]) /\ ~isnull(t[r][left_col + 2])

three_cases(col, rows, t) ==
    IF ~both(col, t) THEN collapse(col, t)
    ELSE IF ~both(col - 1, t) THEN collapse(col - 1, t)
    ELSE [r \in 1..Len(t) |->
            [c \in 1..Len(t[r]) |->
                IF (r - 1) \in rows /\ c = col + 1 THEN t[r][col + 2]
                ELSE IF (r - 1) \in rows /\ c = col + 2 THEN t[r][col + 1]
                ELSE t[r][c]]]

\* C7 (fix_hole against its three cases): (1) no row holds a value in both
\* col and col+1: the two columns collapse into one; (2) otherwise, no row
\* holds a value in both col-1 and col: those two collapse; (3) otherwise each
\* flagged row gets its own col+1 value at col and its own col value at col+1,
\* and nothing else changes.
C7_FixHoleThreeCases ==
    pc = "fixed" => ret = three_cases(arg.col, arg.rows_with_hole.elems, table)

====
